---- MODULE Spec2Model ----
(***************************************************************************)
(* LRUCache (src/lru/LRUCache.py) over MemoryStorage                       *)
(* (src/lru/MemoryStorage.py): the cache facade, the in-memory backend and *)
(* the clock the two read through datetime.now().                          *)
(*                                                                         *)
(* Several specifications share the module, each over its own variables    *)
(* and with the variables of the others held at their initial values:      *)
(*   Spec          the facade over MemoryStorage, one call at a time       *)
(*   ThreadSpec    the facade's RLock, with several threads inside calls   *)
(*   LockSpec      the per-key lock of the file backend, threads of        *)
(*                 several processes stepping through get and release      *)
(*   FileSpec      the files, the running total and the eviction of the    *)
(*                 file backend in one process                             *)
(*   LeaseSpec     one key of the file backend: payload and expiry         *)
(*   StorageSpec   a MemoryStorage that is called itself                   *)
(*   PersistSpec   the facade over a backend that keeps its entries in a   *)
(*                 file, closed and constructed again                      *)
(*   CallbackSpec  the facade over a MemoryStorage whose eviction callback *)
(*                 calls the cache again                                   *)
(***************************************************************************)
EXTENDS Integers, Sequences, FiniteSets, TLC

\* ---------------------------------------------------------------- bounds
MaxTime == 1        \* the clock runs from 0 to MaxTime
MaxQueue == 3       \* cap on len(__expire_queue), i.e. on the stored puts
NumThreads == 3     \* threads that call one LRUCache instance
MaxDrift == 2       \* cap on how far AutoUpdatingSize may be off when a get starts
MaxLeaseTime == 2   \* the clock of the lease specification runs from 0 to MaxLeaseTime
MaxIndex == 3       \* cap on len(__key_priority) when the storage is called itself
MaxDepth == 2       \* cap on the calls of put and remove that are nested in one another

\* ---------------------------------------------------------------- inputs
None == -1          \* Python's None; sizes, times and limits are all >= 0

KeySeq == <<"a", "b", "c">>
Keys == {KeySeq[i] : i \in 1..Len(KeySeq)}
\* what put is called with: the data and the size that is resolved for it
Payloads == {<<"v1", 1>>, <<"v2", 2>>, <<"v3", 3>>}
Values == {p[1] : p \in Payloads}
Sizes == {p[2] : p \in Payloads}
Ttls == {None, 1}
MaxSizeChoices == {None, 2}
MaxAgeChoices == {None, 2}

VARIABLES
    max_size,       \* LRUCache.max_size
    max_age,        \* LRUCache.max_age
    items,          \* MemoryStorage.__items: key -> CachedDataItem
    key_priority,   \* MemoryStorage.__key_priority (tail = most recent)
    expire_queue,   \* MemoryStorage.__expire_queue (heapq list)
    total_size,     \* MemoryStorage.__total_size
    notified,       \* keys handed to notify_evicted by the last call
    now,            \* datetime.now()
    last,           \* the last facade call and what it returned or raised
    \* ---- ThreadSpec
    pc,             \* where each thread is inside LRUCache
    lock_owner,     \* the thread that holds LRUCache.lock (an RLock), or None
    \* ---- LockSpec: one key of a FileCacheStorage root shared by processes
    lpc,            \* where each thread is inside get or release
    blocking,       \* the blocking argument of the get a thread is inside
    handle,         \* the state of the handle each thread got from get
    flock,          \* the thread whose FileLock holds the key's lock file
    live_handles,   \* per process: the thread whose handle __live_handles refers to
    lk_last,        \* the last call that returned or raised, and how
    \* ---- FileSpec: the files of one root and the FileCache of one process
    content,        \* size of <key>.file on disk, 0 when there is none
    metadata,       \* state of <key>.metadata on disk
    mtime_order,    \* keys with a metadata file, oldest modification first
    handles,        \* the live handle this process holds for each key
    other_lock,     \* the key another process holds the lock of, or NoKey
    cache_size,     \* AutoUpdatingSize.__size
    cache_count,    \* AutoUpdatingSize.__count
    scan_due,       \* __next_scan is None or has passed
    fc_max_size,    \* FileCache.max_size
    f_last,         \* the last FileCache call: get, release or another, and
                    \* "ok" or the error it raised
    f_evicted,      \* the keys pop_oldest deleted in the last FileCache call
    \* ---- LeaseSpec: one key of a FileCache, its payload and its expiry
    lease_file,     \* what <key>.file holds, 0 when there is no file
    lease_meta,     \* <key>.metadata: absent, empty, or json with expires
                    \* and metadata
    lease_handle,   \* the CachedFileHandle of the key, live or not
    lease_size,     \* AutoUpdatingSize.__size
    lease_now,      \* datetime.now()
    lease_last,     \* the last call on the key and how it ended
    \* ---- StorageSpec: calls made on a MemoryStorage itself
    room,           \* the call of CacheStorage.make_room_for that is inside
                    \* its loop: its arguments, and the parity of its passes
    \* ---- PersistSpec: an LRUCache over a backend that keeps its entries
    \* in a file
    ps_kind,        \* the class of the backend: "shelved" or "sqlite3"
    ps_rows,        \* the keys that have an entry in the file
    ps_order,       \* the recency order the backend knows, oldest first:
                    \* the last_used column, or __key_priority in memory
    ps_total,       \* __size_cache, or __total_size
    ps_open,        \* the cache is constructed and its storage attached
    ps_last,        \* the last call and how it ended
    \* ---- CallbackSpec: an LRUCache over a MemoryStorage that has an
    \* eviction callback, which calls the cache again
    cb_stack        \* the calls of put and remove the thread is inside,
                    \* outermost first

memvars == <<max_size, max_age, items, key_priority, expire_queue, total_size,
             notified, now, last>>
thvars == <<pc, lock_owner>>
lkvars == <<lpc, blocking, handle, flock, live_handles, lk_last>>
flvars == <<content, metadata, mtime_order, handles, other_lock, cache_size,
            cache_count, scan_due, fc_max_size, f_last, f_evicted>>

lsvars == <<lease_file, lease_meta, lease_handle, lease_size, lease_now,
            lease_last>>
stvars == <<room>>
psvars == <<ps_kind, ps_rows, ps_order, ps_total, ps_open, ps_last>>
cbvars == <<cb_stack>>
extvars == <<lsvars, stvars, psvars, cbvars>>

vars == <<memvars, thvars, lkvars, flvars, extvars>>

\* ------------------------------------------------------- python helpers
\* list.remove(x): drops the first occurrence of x
ListRemove(s, x) ==
    LET idx == CHOOSE i \in 1..Len(s) :
                   s[i] = x /\ \A j \in 1..(i - 1) : s[j] # x
    IN SubSeq(s, 1, idx - 1) \o SubSeq(s, idx + 1, Len(s))

KeyIndex(k) == CHOOSE i \in 1..Len(KeySeq) : KeySeq[i] = k

\* tuple comparison (expire_after, key) < (expire_after, key)
TupleLess(x, y) ==
    \/ x[1] < y[1]
    \/ x[1] = y[1] /\ KeyIndex(x[2]) < KeyIndex(y[2])

\* heapq._siftdown with startpos = 0 (positions are 1-based here)
RECURSIVE siftdown(_, _, _)
siftdown(heap, newitem, pos) ==
    IF pos > 1 /\ TupleLess(newitem, heap[pos \div 2])
    THEN siftdown([heap EXCEPT ![pos] = heap[pos \div 2]], newitem, pos \div 2)
    ELSE [heap EXCEPT ![pos] = newitem]

heappush(heap, item) == siftdown(Append(heap, item), item, Len(heap) + 1)

\* ------------------------------------------------------- MemoryStorage
\* the backend's fields as one record, so that its methods compose
\* (__oldest_lru is written at lines 78 and 121 and never read: left out)
Storage ==
    [items |-> items, key_priority |-> key_priority,
     expire_queue |-> expire_queue, total_size |-> total_size,
     notified |-> <<>>]

has(st, key) == key \in DOMAIN st.items

count_items(st) == Cardinality(DOMAIN st.items)

\* remove without line 107: the size of the entry stays in the total
remove_keeps_total(st, key) ==
    IF key \in DOMAIN st.items
    THEN [st EXCEPT
            !.notified = Append(@, key),
            !.items = [k \in DOMAIN st.items \ {key} |-> st.items[k]],
            !.key_priority = ListRemove(@, key)]
    ELSE st

remove(st, key) ==
    IF key \in DOMAIN st.items
    THEN [st EXCEPT
            !.notified = Append(@, key),
            !.total_size = @ - st.items[key].size,
            !.items = [k \in DOMAIN st.items \ {key} |-> st.items[k]],
            !.key_priority = ListRemove(@, key)]
    ELSE st

\* add without lines 60-61: an entry under the same key is overwritten but
\* its size stays in the total
add_double_count(st, key, data, size, expire_after) ==
    LET item == [data |-> data, last_used |-> now, size |-> size,
                 expire_after |-> expire_after]
    IN [st EXCEPT
          !.key_priority = Append(SelectSeq(@, LAMBDA k : k # key), key),
          !.items = [k \in DOMAIN st.items \cup {key} |->
                        IF k = key THEN item ELSE st.items[k]],
          !.total_size = @ + size,
          !.expire_queue = IF expire_after # None
                           THEN heappush(@, <<expire_after, key>>)
                           ELSE @]

add(st, key, data, size, expire_after) ==
    LET s1 == IF has(st, key) THEN remove(st, key) ELSE st
        item == [data |-> data, last_used |-> now, size |-> size,
                 expire_after |-> expire_after]
    IN [s1 EXCEPT
          !.key_priority = Append(@, key),
          !.items = [k \in DOMAIN s1.items \cup {key} |->
                        IF k = key THEN item ELSE s1.items[k]],
          !.total_size = @ + size,
          !.expire_queue = IF expire_after # None
                           THEN heappush(@, <<expire_after, key>>)
                           ELSE @]

\* touch_last_used up to line 118: a stored key is taken out of the index
\* and stamped; the key, stored or not, is appended
touch_last_used(st, key) ==
    LET s1 == IF key \in DOMAIN st.items
                THEN [st EXCEPT
                        !.key_priority = ListRemove(@, key),
                        !.items = [@ EXCEPT ![key].last_used = now]]
                ELSE st
    IN [s1 EXCEPT !.key_priority = Append(@, key)]

\* line 121: self.__items[key] of a key that is not stored
touch_last_used_raises(st, key) == key \notin DOMAIN st.items

\* next_to_remove taking the most recently used end of the index
next_to_remove_newest(st) == st.key_priority[Len(st.key_priority)]

next_to_remove(st) == st.key_priority[1]

\* make_room_for with `if` in the place of `while`: one eviction at most
make_room_for_once(st, size, maxsize) ==
    IF Len(st.key_priority) > 0 /\ st.total_size + size > maxsize
    THEN remove(st, next_to_remove(st))
    ELSE st

over_limit_or_at(st, size, maxsize) == st.total_size + size >= maxsize

\* line 142: self.__total_size + size > max_size
over_limit(st, size, maxsize) == st.total_size + size > maxsize

RECURSIVE make_room_for(_, _, _)
make_room_for(st, size, maxsize) ==
    IF Len(st.key_priority) > 0 /\ over_limit(st, size, maxsize)
    THEN make_room_for(remove(st, next_to_remove(st)), size, maxsize)
    ELSE st

\* `int > None` at line 142, reached only when the index is not empty
make_room_for_raises(st, maxsize) ==
    Len(st.key_priority) > 0 /\ maxsize = None

\* the loop of line 142 does not end: the head of the index is a key that
\* is not stored, remove does nothing for it, and the total is still over
RECURSIVE make_room_for_hangs(_, _, _)
make_room_for_hangs(st, size, maxsize) ==
    IF Len(st.key_priority) > 0 /\ over_limit(st, size, maxsize)
    THEN IF next_to_remove(st) \in DOMAIN st.items
           THEN make_room_for_hangs(remove(st, next_to_remove(st)), size,
                                    maxsize)
           ELSE TRUE
    ELSE FALSE

\* ------------------------------------------------------------- LRUCache
NoData == "None"

\* the record of a call: for get, data is what it returned or the argument of
\* the KeyError it raised; for put, data is the data it was called with and
\* fits tells whether the resolved size was within max_size
Outcome(op, key, status, data, fits) ==
    [op |-> op, key |-> key, status |-> status, data |-> data, fits |-> fits]

Store(st) ==
    /\ items' = st.items
    /\ key_priority' = st.key_priority
    /\ expire_queue' = st.expire_queue
    /\ total_size' = st.total_size
    /\ notified' = st.notified

Threads == 1..NumThreads

\* no thread is inside the facade
ThInit ==
    /\ pc = [t \in Threads |-> "idle"]
    /\ lock_owner = None

\* the processes that share the root and the threads of each
LockProcs == {"p1", "p2"}
Agents == {<<"p1", "t1">>, <<"p1", "t2">>, <<"p2", "t1">>}
NoAgent == <<"none", "none">>
Proc(a) == a[1]

\* no thread is inside get or release, no handle is out, the lock file is free
LkInit ==
    /\ lpc = [a \in Agents |-> "idle"]
    /\ blocking = [a \in Agents |-> FALSE]
    /\ handle = [a \in Agents |-> "none"]
    /\ flock = NoAgent
    /\ live_handles = [p \in LockProcs |-> NoAgent]
    /\ lk_last = [agent |-> NoAgent, op |-> "init", status |-> "ok"]

FileKeys == {"a", "b"}
NoKey == "none"
NoHandle == [init_size |-> None, changed |-> FALSE, discarded |-> FALSE]

ContentSizes == {2}
FileMaxSizes == {None, 4}
MetaSize == 1       \* bytes of a <key>.metadata file written by json.dump
VersionSize == 1    \* bytes of .cache_version, the text "2"

FOutcome(op, status) == [op |-> op, status |-> status]

\* an empty root with its .cache_version file, a fresh FileCacheStorage
FlFresh ==
    /\ content = [k \in FileKeys |-> 0]
    /\ metadata = [k \in FileKeys |-> "absent"]
    /\ mtime_order = <<>>
    /\ handles = [k \in FileKeys |-> NoHandle]
    /\ other_lock = NoKey
    /\ cache_size = 0
    /\ cache_count = 0
    /\ scan_due = TRUE
    /\ f_last = FOutcome("edit", "ok")
    /\ f_evicted = {}

FlInit == FlFresh /\ fc_max_size = None

\* ---- the key of the lease specification
Contents == {1, 2}              \* what a client writes into <key>.file
LeaseContentSize == 2           \* os.path.getsize of a written <key>.file
ExpiresInChoices == {1}         \* the expires_in a client sets on a handle

\* the metadata payload is a dict with a scalar under one key and a nested
\* dict under another; 0 says the key is not in the dict
EmptyPayload == [top |-> 0, nested |-> 0]

AbsentMeta == [state |-> "absent", expires |-> None, metadata |-> EmptyPayload]
EmptyMeta == [state |-> "empty", expires |-> None, metadata |-> EmptyPayload]

\* no handle, or a handle after its release (self.__lock is None)
NoLease ==
    [live |-> FALSE, metadata |-> EmptyPayload, init_metadata |-> EmptyPayload,
     aliased |-> FALSE, init_size |-> 0, expires_in |-> None,
     changed |-> FALSE, discarded |-> FALSE]

LsOutcome(op, status) == [op |-> op, status |-> status]

LsInit ==
    /\ lease_file = 0
    /\ lease_meta = AbsentMeta
    /\ lease_handle = NoLease
    /\ lease_size = 0
    /\ lease_now = 0
    /\ lease_last = LsOutcome("init", "ok")

\* no call of the default make_room_for is running
NoRoom == [active |-> FALSE, size |-> 0, max_size |-> 0, pass |-> 0]

StInit == room = NoRoom

PersistKinds == {"shelved", "sqlite3"}
PersistMaxSize == 2     \* max_size of the cache over the persistent backend
UnitSize == 1           \* sizeof = lambda i: 1

PsOutcome(op, key, status) == [op |-> op, key |-> key, status |-> status]

\* a cache constructed on a path where no file exists yet
PsFresh ==
    /\ ps_rows = {}
    /\ ps_order = <<>>
    /\ ps_total = 0
    /\ ps_open = TRUE
    /\ ps_last = PsOutcome("open", NoKey, "ok")

PsInit == PsFresh /\ ps_kind = "sqlite3"

\* the thread is in no call
CbInit == cb_stack = <<>>

ExtInit == LsInit /\ StInit /\ PsInit /\ CbInit

Init ==
    /\ ThInit /\ LkInit /\ FlInit /\ ExtInit
    /\ max_size \in MaxSizeChoices
    /\ max_age \in MaxAgeChoices
    /\ items = [k \in {} |-> None]
    /\ key_priority = <<>>
    /\ expire_queue = <<>>
    /\ total_size = 0
    /\ notified = <<>>
    /\ now = 0
    /\ last = Outcome("init", KeySeq[1], "ok", NoData, TRUE)

Fits(size) == max_size = None \/ size <= max_size

Put(key, data, expires_in, size) ==
    /\ Len(expire_queue) < MaxQueue
    /\ UNCHANGED <<max_size, max_age, now, thvars, lkvars, flvars,
                   extvars>>
    /\ IF expires_in = None /\ max_age = None
       THEN \* line 69: datetime.now() + None
            /\ Store(Storage)
            /\ last' = Outcome("put", key, "TypeError", data, Fits(size))
       ELSE LET expire_after == IF expires_in # None THEN now + expires_in
                                ELSE now + max_age
            IN IF max_size # None /\ size > max_size
               THEN /\ Store(Storage)
                    /\ last' = Outcome("put", key, "ok", data, FALSE)
               ELSE IF make_room_for_raises(Storage, max_size)
               THEN /\ Store(Storage)
                    /\ last' = Outcome("put", key, "TypeError", data, TRUE)
               ELSE /\ Store(add(make_room_for(Storage, size, max_size),
                                 key, data, size, expire_after))
                    /\ last' = Outcome("put", key, "ok", data, TRUE)

Get(key) ==
    /\ UNCHANGED <<max_size, max_age, now, thvars, lkvars, flvars,
                   extvars>>
    /\ IF ~ has(Storage, key)
       THEN /\ Store(Storage)
            /\ last' = Outcome("get", key, "KeyError", key, TRUE)
       ELSE IF items[key].expire_after = None
       THEN /\ Store(Storage)
            /\ last' = Outcome("get", key, "TypeError", NoData, TRUE)
       ELSE IF items[key].expire_after > now
       THEN /\ Store(touch_last_used(touch_last_used(Storage, key), key))
            /\ last' = Outcome("get", key, "ok", items[key].data, TRUE)
       ELSE /\ Store(Storage)
            /\ last' = Outcome("get", key, "KeyError", "has expired", TRUE)

Remove(key) ==
    /\ UNCHANGED <<max_size, max_age, now, thvars, lkvars, flvars,
                   extvars>>
    /\ Store(remove(Storage, key))
    /\ last' = Outcome("remove", key, "ok", NoData, TRUE)

Clean ==
    /\ UNCHANGED <<max_size, max_age, now, thvars, lkvars, flvars,
                   extvars>>
    /\ Store(Storage)
    /\ IF Len(expire_queue) = 0
       THEN last' = Outcome("clean", KeySeq[1], "ok", NoData, TRUE)
       ELSE IF expire_queue[1][1] <= now
       THEN last' = Outcome("clean", KeySeq[1], "TypeError", NoData, TRUE)
       ELSE last' = Outcome("clean", KeySeq[1], "ok", NoData, TRUE)

Tick ==
    /\ now < MaxTime
    /\ now' = now + 1
    /\ UNCHANGED <<max_size, max_age, items, key_priority, expire_queue,
                   total_size, notified, last, thvars, lkvars, flvars,
                   extvars>>

Next ==
    \/ \E k \in Keys, p \in Payloads, t \in Ttls : Put(k, p[1], t, p[2])
    \/ \E k \in Keys : Get(k)
    \/ \E k \in Keys : Remove(k)
    \/ Clean
    \/ Tick

Spec == Init /\ [][Next]_vars

\* ------------------------------------------------- LRUCache.lock, threads
\* the facade with nothing stored and no limits, as the other
\* specifications hold it
MemIdle ==
    /\ max_size = None
    /\ max_age = None
    /\ items = [k \in {} |-> None]
    /\ key_priority = <<>>
    /\ expire_queue = <<>>
    /\ total_size = 0
    /\ notified = <<>>
    /\ now = 0
    /\ last = Outcome("init", KeySeq[1], "ok", NoData, TRUE)

\* put up to line 72 and __getitem__ up to line 91: the thread reaches
\* `with self.lock`
CallLocked(t, op) ==
    /\ pc[t] = "idle"
    /\ pc' = [pc EXCEPT ![t] = op \o "_wait"]
    /\ UNCHANGED <<lock_owner, memvars, lkvars, flvars,
                   extvars>>

\* RLock.acquire: free, or already held by this thread
AcquireLock(t, op) ==
    /\ pc[t] = op \o "_wait"
    /\ lock_owner \in {None, t}
    /\ lock_owner' = t
    /\ pc' = [pc EXCEPT ![t] = op \o "_storage"]
    /\ UNCHANGED <<memvars, lkvars, flvars,
                   extvars>>

\* the end of the `with` block: the storage calls are done, the lock is freed
ReturnLocked(t, op) ==
    /\ pc[t] = op \o "_storage"
    /\ lock_owner' = None
    /\ pc' = [pc EXCEPT ![t] = "idle"]
    /\ UNCHANGED <<memvars, lkvars, flvars,
                   extvars>>

\* __delitem__ (line 107) and clean (line 121) call the storage at once
CallUnlocked(t, op) ==
    /\ pc[t] = "idle"
    /\ pc' = [pc EXCEPT ![t] = op \o "_storage"]
    /\ UNCHANGED <<lock_owner, memvars, lkvars, flvars,
                   extvars>>

ReturnUnlocked(t, op) ==
    /\ pc[t] = op \o "_storage"
    /\ pc' = [pc EXCEPT ![t] = "idle"]
    /\ UNCHANGED <<lock_owner, memvars, lkvars, flvars,
                   extvars>>

LockedOps == {"put", "get"}
UnlockedOps == {"remove", "clean"}

ThreadNext ==
    \/ \E t \in Threads, op \in LockedOps : CallLocked(t, op)
    \/ \E t \in Threads, op \in LockedOps : AcquireLock(t, op)
    \/ \E t \in Threads, op \in LockedOps : ReturnLocked(t, op)
    \/ \E t \in Threads, op \in UnlockedOps : CallUnlocked(t, op)
    \/ \E t \in Threads, op \in UnlockedOps : ReturnUnlocked(t, op)

ThreadInit == MemIdle /\ ThInit /\ LkInit /\ FlInit /\ ExtInit

ThreadSpec == ThreadInit /\ [][ThreadNext]_vars

\* ------------------------------ FileCacheStorage: the per-key lock protocol
\* One key. A thread steps through storage.get (_get_lock_for: the table
\* check, then FileLock.acquire; then the handle is built and registered) and
\* through handle_released (the table check, lock.release, the del of the
\* table entry). The files of the entry are left out here; FileSpec has them.

\* the weak reference in __live_handles of process p resolves to a handle
HandleAlive(p) ==
    /\ live_handles[p] # NoAgent
    /\ handle[live_handles[p]] # "none"

LkOutcome(a, op, status) == [agent |-> a, op |-> op, status |-> status]

\* FileCache.get -> storage.get -> _get_lock_for is entered
GetCall(a, b) ==
    /\ lpc[a] = "idle"
    /\ lpc' = [lpc EXCEPT ![a] = "check"]
    /\ blocking' = [blocking EXCEPT ![a] = b]
    /\ UNCHANGED <<handle, flock, live_handles, lk_last, memvars, thvars, flvars,
                   extvars>>

\* _get_lock_for lines 134-138: a live handle of this process raises
\* CachedFileLocked, whatever `blocking` is; a dead reference is dropped
CheckTable_skips_table(a) ==
    /\ lpc[a] = "check"
    /\ lpc' = [lpc EXCEPT ![a] = "acquire"]
    /\ live_handles' = [live_handles EXCEPT ![Proc(a)] = NoAgent]
    /\ UNCHANGED <<blocking, lk_last, handle, flock, memvars, thvars, flvars,
                   extvars>>

CheckTable(a) ==
    /\ lpc[a] = "check"
    /\ IF HandleAlive(Proc(a))
         THEN /\ lpc' = [lpc EXCEPT ![a] = "idle"]
              /\ blocking' = [blocking EXCEPT ![a] = FALSE]
              /\ lk_last' = LkOutcome(a, "get", "CachedFileLocked")
              /\ UNCHANGED live_handles
         ELSE /\ lpc' = [lpc EXCEPT ![a] = "acquire"]
              /\ live_handles' = [live_handles EXCEPT ![Proc(a)] = NoAgent]
              /\ UNCHANGED <<blocking, lk_last>>
    /\ UNCHANGED <<handle, flock, memvars, thvars, flvars,
                   extvars>>

\* FileLock.acquire succeeds once no other FileLock object, of any thread of
\* any process, holds the lock file
acquire_without_waiting(a) ==
    /\ lpc[a] = "acquire"
    /\ flock' = a
    /\ lpc' = [lpc EXCEPT ![a] = "build"]
    /\ UNCHANGED <<blocking, handle, live_handles, lk_last, memvars, thvars, flvars,
                   extvars>>

Acquire(a) ==
    /\ lpc[a] = "acquire"
    /\ flock = NoAgent
    /\ flock' = a
    /\ lpc' = [lpc EXCEPT ![a] = "build"]
    /\ UNCHANGED <<blocking, handle, live_handles, lk_last, memvars, thvars, flvars,
                   extvars>>

\* FileLock.acquire with timeout = 5 (blocking false): the lock file stayed
\* held for the whole wait and filelock raises Timeout, which neither
\* _get_lock_for, storage.get nor FileCache.get catches
AcquireTimeout(a) ==
    /\ lpc[a] = "acquire"
    /\ ~ blocking[a]
    /\ flock # NoAgent
    /\ lpc' = [lpc EXCEPT ![a] = "idle"]
    /\ lk_last' = LkOutcome(a, "get", "Timeout")
    /\ UNCHANGED <<blocking, handle, flock, live_handles, memvars, thvars, flvars,
                   extvars>>

\* storage.get lines 221-272: the handle is built around the lock, registered
\* in __live_handles and returned
Build(a) ==
    /\ lpc[a] = "build"
    /\ handle' = [handle EXCEPT ![a] = "live"]
    /\ live_handles' = [live_handles EXCEPT ![Proc(a)] = a]
    /\ lpc' = [lpc EXCEPT ![a] = "idle"]
    /\ blocking' = [blocking EXCEPT ![a] = FALSE]
    /\ lk_last' = LkOutcome(a, "get", "handle")
    /\ UNCHANGED <<flock, memvars, thvars, flvars,
                   extvars>>

\* handle.release -> handle_released lines 284-285: ValueError unless the
\* name is in the table; the handle keeps its lock then
ReleaseCall(a) ==
    /\ lpc[a] = "idle"
    /\ handle[a] # "none"
    /\ IF live_handles[Proc(a)] = NoAgent
         THEN /\ lk_last' = LkOutcome(a, "release", "ValueError")
              /\ UNCHANGED lpc
         ELSE /\ lpc' = [lpc EXCEPT ![a] = "unlock"]
              /\ UNCHANGED lk_last
    /\ UNCHANGED <<blocking, handle, flock, live_handles, memvars, thvars, flvars,
                   extvars>>

\* handle_released line 314: lock.release()
Unlock(a) ==
    /\ lpc[a] = "unlock"
    /\ flock' = IF flock = a THEN NoAgent ELSE flock
    /\ handle' = [handle EXCEPT ![a] = "unlocked"]
    /\ lpc' = [lpc EXCEPT ![a] = "unregister"]
    /\ UNCHANGED <<blocking, live_handles, lk_last, memvars, thvars, flvars,
                   extvars>>

\* handle_released line 315: del __live_handles[name] removes whatever entry
\* the name has, and raises KeyError when it has none; release() then never
\* reaches `self.__lock = None`
Unregister(a) ==
    /\ lpc[a] = "unregister"
    /\ lpc' = [lpc EXCEPT ![a] = "idle"]
    /\ IF live_handles[Proc(a)] = NoAgent
         THEN /\ lk_last' = LkOutcome(a, "release", "KeyError")
              /\ UNCHANGED <<handle, live_handles>>
         ELSE /\ live_handles' = [live_handles EXCEPT ![Proc(a)] = NoAgent]
              /\ handle' = [handle EXCEPT ![a] = "none"]
              /\ lk_last' = LkOutcome(a, "release", "ok")
    /\ UNCHANGED <<blocking, flock, memvars, thvars, flvars,
                   extvars>>

\* the handle is dropped without release: the weak reference dies and the
\* FileLock of the handle lets go of the lock file when it is collected
Drop(a) ==
    /\ lpc[a] = "idle"
    /\ handle[a] # "none"
    /\ handle' = [handle EXCEPT ![a] = "none"]
    /\ flock' = IF flock = a THEN NoAgent ELSE flock
    /\ lk_last' = LkOutcome(a, "drop", "ok")
    /\ UNCHANGED <<lpc, blocking, live_handles, memvars, thvars, flvars,
                   extvars>>

\* FileCacheStorage.close lines 435-449, called by a thread of the process:
\* the loop over __live_handles.items() collects a live handle and raises
\* OpenHandlesExist after it; for a dead reference it calls _handle_lost,
\* which deletes the entry from the dict that is being iterated, and the
\* next step of the loop raises RuntimeError
LkClose(a) ==
    /\ lpc[a] = "idle"
    /\ IF live_handles[Proc(a)] = NoAgent
         THEN /\ lk_last' = LkOutcome(a, "close", "ok")
              /\ UNCHANGED live_handles
         ELSE IF HandleAlive(Proc(a))
         THEN /\ lk_last' = LkOutcome(a, "close", "OpenHandlesExist")
              /\ UNCHANGED live_handles
         ELSE /\ lk_last' = LkOutcome(a, "close", "RuntimeError")
              /\ live_handles' = [live_handles EXCEPT ![Proc(a)] = NoAgent]
    /\ UNCHANGED <<lpc, blocking, handle, flock, memvars, thvars, flvars,
                   extvars>>

LockNext ==
    \/ \E a \in Agents, b \in BOOLEAN : GetCall(a, b)
    \/ \E a \in Agents : CheckTable(a)
    \/ \E a \in Agents : Acquire(a)
    \/ \E a \in Agents : AcquireTimeout(a)
    \/ \E a \in Agents : Build(a)
    \/ \E a \in Agents : ReleaseCall(a)
    \/ \E a \in Agents : Unlock(a)
    \/ \E a \in Agents : Unregister(a)
    \/ \E a \in Agents : Drop(a)
    \/ \E a \in Agents : LkClose(a)

LockInit == MemIdle /\ ThInit /\ LkInit /\ FlInit /\ ExtInit

LockSpec == LockInit /\ [][LockNext]_vars

\* --------------------------- FileCache over FileCacheStorage, one process
\* The calls of the process are made one after the other; another process
\* can hold the lock of one key and release it unchanged. The recorded
\* expiry of an entry is not part of this specification.

FileState ==
    [content |-> content, metadata |-> metadata, mtime_order |-> mtime_order,
     handles |-> handles, other_lock |-> other_lock, cache_size |-> cache_size,
     cache_count |-> cache_count, scan_due |-> scan_due]

\* os.path.getsize of <key>.metadata: Path.touch() makes an empty file,
\* json.dump a file of MetaSize bytes
meta_size(m) == IF m = "json" THEN MetaSize ELSE 0

entry_size(fs, k) == fs.content[k] + meta_size(fs.metadata[k])

RECURSIVE disk_bytes(_, _)
disk_bytes(fs, S) ==
    IF S = {} THEN 0
    ELSE LET k == CHOOSE x \in S : TRUE
         IN entry_size(fs, k) + disk_bytes(fs, S \ {k})

\* FileCacheStorage.keys: the names that have a .metadata file
keys(fs) == {k \in FileKeys : fs.metadata[k] # "absent"}

\* AutoUpdatingSize.rescan_disk: every file under the root is summed, with
\* .cache_version and the (empty) lock files; .metadata files are counted
rescan_disk(fs) ==
    [fs EXCEPT !.cache_size = VersionSize + disk_bytes(fs, FileKeys),
               !.cache_count = Cardinality(keys(fs)),
               !.scan_due = FALSE]

\* AutoUpdatingSize.size: the state after the read (a due rescan is done);
\* its cache_size is the value read
read_size(fs) == IF fs.scan_due THEN rescan_disk(fs) ELSE fs

\* the order of the metadata mtimes without the file of k
without(order, k) == SelectSeq(order, LAMBDA j : j # k)

\* a write of <key>.metadata that leaves the mtime of an existing file alone
touch_keeps_mtime(fs, k, m) ==
    [fs EXCEPT !.metadata[k] = m,
               !.mtime_order = IF \E i \in 1..Len(@) : @[i] = k THEN @
                               ELSE Append(@, k)]

\* Path.touch / open(..., 'wt') on <key>.metadata: its mtime is now the newest
touch(fs, k, m) ==
    [fs EXCEPT !.metadata[k] = m,
               !.mtime_order = Append(without(fs.mtime_order, k), k)]

\* __delete_item_data: both files are removed; what was on disk is
\* subtracted, and NoItemsCached is raised when that was nothing
delete_item_data(fs, k) ==
    LET bytes_deleted == entry_size(fs, k)
        gone == [fs EXCEPT !.content[k] = 0,
                           !.metadata[k] = "absent",
                           !.mtime_order = without(fs.mtime_order, k)]
    IN IF bytes_deleted > 0
         THEN [fs |-> [gone EXCEPT !.cache_size = @ - bytes_deleted,
                                   !.cache_count = @ - 1],
               status |-> "ok"]
         ELSE [fs |-> gone, status |-> "NoItemsCached"]

\* _get_lock_for(name, blocking=False) as the process itself calls it
get_lock_for(fs, k) ==
    IF fs.handles[k] # NoHandle THEN "CachedFileLocked"
    ELSE IF fs.other_lock = k THEN "Timeout"
    ELSE "ok"

pop_oldest_without_lock(fs) ==
    IF fs.mtime_order = <<>>
      THEN [fs |-> fs, status |-> "ValueError"]
      ELSE delete_item_data(fs, Head(fs.mtime_order))

\* pop_oldest: the key of the oldest .metadata mtime, leased or not, is
\* locked without blocking and deleted
pop_oldest(fs) ==
    IF fs.mtime_order = <<>>
      THEN [fs |-> fs, status |-> "ValueError"]
      ELSE LET oldest_name == Head(fs.mtime_order)
               locked == get_lock_for(fs, oldest_name)
           IN IF locked # "ok"
                THEN [fs |-> fs, status |-> locked]
                ELSE delete_item_data(fs, oldest_name)

\* FileCache.handle_released: while total_size_stored > max_size: pop_oldest()
RECURSIVE evict_while_over(_, _)
evict_while_over(fs, max) ==
    LET r == read_size(fs)
    IN IF r.cache_size > max
         THEN LET p == pop_oldest(r)
              IN IF p.status = "ok"
                   THEN evict_while_over(p.fs, max)
                   ELSE p
         ELSE [fs |-> r, status |-> "ok"]

filecache_handle_released(fs, changed, max) ==
    IF changed /\ max # None
      THEN evict_while_over(fs, max)
      ELSE [fs |-> fs, status |-> "ok"]

\* FileCacheStorage.handle_released for a handle that is not discarded:
\* metadata written or touched, then the accounting of lines 305-312
commit(fs, k) ==
    LET h == fs.handles[k]
        written == IF h.changed THEN touch(fs, k, "json")
                   ELSE touch(fs, k, IF fs.metadata[k] = "absent" THEN "empty"
                                     ELSE fs.metadata[k])
        sub == IF h.init_size > 0
                 THEN [written EXCEPT !.cache_size = @ - h.init_size,
                                      !.cache_count = @ - 1]
                 ELSE written
    IN [sub EXCEPT !.cache_size = @ + entry_size(written, k),
                   !.cache_count = @ + 1]

\* handle.release: storage.handle_released, then FileCache.handle_released
release(fs, k, max) ==
    LET h == fs.handles[k]
        stored == IF h.discarded
                    THEN delete_item_data(fs, k)
                    ELSE [fs |-> commit(fs, k), status |-> "ok"]
    IN IF stored.status # "ok"
         THEN stored
         ELSE filecache_handle_released(
                  [stored.fs EXCEPT !.handles[k] = NoHandle], h.changed, max)

close_drops_handles(fs) ==
    [fs |-> [fs EXCEPT !.handles = [k \in FileKeys |-> NoHandle]],
     status |-> "ok"]

\* FileCacheStorage.close: the names whose handle is alive are collected and
\* OpenHandlesExist is raised when there is one; nothing is released
close(fs) ==
    LET open_handles == {k \in FileKeys : fs.handles[k] # NoHandle}
    IN IF open_handles # {}
         THEN [fs |-> fs, status |-> "OpenHandlesExist"]
         ELSE [fs |-> fs, status |-> "ok"]

FStore(fs) ==
    /\ content' = fs.content
    /\ metadata' = fs.metadata
    /\ mtime_order' = fs.mtime_order
    /\ handles' = fs.handles
    /\ other_lock' = fs.other_lock
    /\ cache_size' = fs.cache_size
    /\ cache_count' = fs.cache_count
    /\ scan_due' = fs.scan_due

\* the running total and count are within MaxDrift of what is on disk
InDrift(fs) ==
    /\ fs.cache_size - disk_bytes(fs, FileKeys)
          \in -MaxDrift..(VersionSize + MaxDrift)
    /\ fs.cache_count - Cardinality(keys(fs)) \in -MaxDrift..MaxDrift

\* LRUCache.close sets self.storage = None after a close of the storage
\* that did not raise: the outcome of that close stays the last outcome
\* until the cache is constructed again
Attached == f_last # FOutcome("close", "ok")

\* FileCache.get(name, blocking): a blocking get of a key another process
\* holds waits, so it does not return while the lock is held
FGet(k, b) ==
    /\ Attached
    /\ InDrift(FileState)
    /\ ~ (b /\ handles[k] = NoHandle /\ other_lock = k)
    /\ LET locked == get_lock_for(FileState, k)
       IN /\ f_last' = FOutcome("get", locked)
          /\ handles' = IF locked = "ok"
                          THEN [handles EXCEPT ![k] =
                                  [init_size |-> entry_size(FileState, k),
                                   changed |-> FALSE, discarded |-> FALSE]]
                          ELSE handles
    /\ f_evicted' = {}
    /\ UNCHANGED <<content, metadata, mtime_order, other_lock, cache_size,
                   cache_count, scan_due, fc_max_size, memvars, thvars, lkvars,
                   extvars>>

\* handle.open('w') and a write, or handle.copy_from
FWrite(k, size) ==
    /\ handles[k] # NoHandle
    /\ content' = [content EXCEPT ![k] = size]
    /\ handles' = [handles EXCEPT ![k].changed = TRUE]
    /\ f_last' = FOutcome("edit", "ok")
    /\ f_evicted' = {}
    /\ UNCHANGED <<metadata, mtime_order, other_lock, cache_size, cache_count,
                   scan_due, fc_max_size, memvars, thvars, lkvars,
                   extvars>>

\* handle.metadata is given another payload
FSetMetadata(k) ==
    /\ handles[k] # NoHandle
    /\ ~ handles[k].changed
    /\ handles' = [handles EXCEPT ![k].changed = TRUE]
    /\ f_last' = FOutcome("edit", "ok")
    /\ f_evicted' = {}
    /\ UNCHANGED <<content, metadata, mtime_order, other_lock, cache_size,
                   cache_count, scan_due, fc_max_size, memvars, thvars, lkvars,
                   extvars>>

\* handle.discard
FDiscard(k) ==
    /\ handles[k] # NoHandle
    /\ ~ handles[k].discarded
    /\ handles' = [handles EXCEPT ![k].changed = TRUE, ![k].discarded = TRUE]
    /\ f_last' = FOutcome("edit", "ok")
    /\ f_evicted' = {}
    /\ UNCHANGED <<content, metadata, mtime_order, other_lock, cache_size,
                   cache_count, scan_due, fc_max_size, memvars, thvars, lkvars,
                   extvars>>

\* handle.release, also the __exit__ of the handle
FRelease(k) ==
    /\ handles[k] # NoHandle
    /\ LET r == release(FileState, k, fc_max_size)
           stored == IF handles[k].discarded
                       THEN delete_item_data(FileState, k).fs
                       ELSE commit(FileState, k)
       IN /\ InDrift(r.fs)
          /\ FStore(r.fs)
          /\ f_last' = FOutcome("release", r.status)
          /\ f_evicted' = keys(stored) \ keys(r.fs)
    /\ UNCHANGED <<fc_max_size, memvars, thvars, lkvars,
                   extvars>>

\* total_size_stored / num_items read by the client
FReadSize ==
    /\ Attached
    /\ FStore(read_size(FileState))
    /\ f_last' = FOutcome("edit", "ok")
    /\ f_evicted' = {}
    /\ UNCHANGED <<fc_max_size, memvars, thvars, lkvars,
                   extvars>>

\* cache.close(): storage.close(), then the storage is detached
FClose ==
    /\ Attached
    /\ LET r == close(FileState)
       IN /\ FStore(r.fs)
          /\ f_last' = FOutcome("close", r.status)
    /\ f_evicted' = {}
    /\ UNCHANGED <<fc_max_size, memvars, thvars, lkvars,
                   extvars>>

\* FileCache(path, max_size) on the same root after a close: a new storage
\* with an empty live-handle table and a size that is scanned at its first read
FReopen ==
    /\ ~ Attached
    /\ cache_size' = 0
    /\ cache_count' = 0
    /\ scan_due' = TRUE
    /\ handles' = [k \in FileKeys |-> NoHandle]
    /\ f_last' = FOutcome("edit", "ok")
    /\ f_evicted' = {}
    /\ UNCHANGED <<content, metadata, mtime_order, other_lock, fc_max_size,
                   memvars, thvars, lkvars,
                   extvars>>

\* rescan_every has passed since the last rescan
FScanDue ==
    /\ ~ scan_due
    /\ scan_due' = TRUE
    /\ UNCHANGED <<content, metadata, mtime_order, handles, other_lock,
                   cache_size, cache_count, fc_max_size, f_last, f_evicted,
                   memvars, thvars, lkvars,
                   extvars>>

\* another process gets a handle of k
OtherGet(k) ==
    /\ other_lock = NoKey
    /\ handles[k] = NoHandle
    /\ other_lock' = k
    /\ UNCHANGED <<content, metadata, mtime_order, handles, cache_size,
                   cache_count, scan_due, fc_max_size, f_last, f_evicted,
                   memvars, thvars, lkvars,
                   extvars>>

\* and releases it unchanged: handle_released touches <key>.metadata
OtherRelease ==
    /\ other_lock # NoKey
    /\ LET k == other_lock
           t == touch(FileState, k, IF metadata[k] = "absent" THEN "empty"
                                    ELSE metadata[k])
       IN /\ metadata' = t.metadata
          /\ mtime_order' = t.mtime_order
    /\ other_lock' = NoKey
    /\ UNCHANGED <<content, handles, cache_size, cache_count, scan_due,
                   fc_max_size, f_last, f_evicted, memvars, thvars, lkvars,
                   extvars>>

FileNext ==
    \/ \E k \in FileKeys, b \in BOOLEAN : FGet(k, b)
    \/ \E k \in FileKeys, size \in ContentSizes : FWrite(k, size)
    \/ \E k \in FileKeys : FSetMetadata(k)
    \/ \E k \in FileKeys : FDiscard(k)
    \/ \E k \in FileKeys : FRelease(k)
    \/ FReadSize
    \/ FClose
    \/ FReopen
    \/ FScanDue
    \/ \E k \in FileKeys : OtherGet(k)
    \/ OtherRelease

FileInit ==
    /\ MemIdle /\ ThInit /\ LkInit /\ ExtInit
    /\ FlFresh /\ fc_max_size \in FileMaxSizes

FileSpec == FileInit /\ [][FileNext]_vars

\* ------------------ one key of a FileCache: payload, expiry and the handle
\* One process, max_size and max_age unset, so no eviction follows a release
\* and FileCache.get adds no expiry of its own.

LeaseState ==
    [file |-> lease_file, meta |-> lease_meta, handle |-> lease_handle,
     size |-> lease_size, now |-> lease_now]

lease_file_size(f) == IF f = 0 THEN 0 ELSE LeaseContentSize

lease_meta_size(m) == IF m.state = "json" THEN MetaSize ELSE 0

\* __delete_item_data on the key
lease_delete_item_data(ls) ==
    LET bytes_deleted == lease_file_size(ls.file) + lease_meta_size(ls.meta)
        gone == [ls EXCEPT !.file = 0, !.meta = AbsentMeta]
    IN IF bytes_deleted > 0
         THEN [ls |-> [gone EXCEPT !.size = @ - bytes_deleted], status |-> "ok"]
         ELSE [ls |-> gone, status |-> "NoItemsCached"]

\* the recorded expiry has passed: `expires_at < now` of get
lease_expired(ls) ==
    /\ ls.meta.state = "json"
    /\ ls.meta.expires # None
    /\ ls.meta.expires < ls.now

\* the payload the handle is built with: line 251 reads itemdata['metadata']
\* of the metadata as it was read, after the expiry branch has run
get_metadata(ls) ==
    IF ls.meta.state = "json" THEN ls.meta.metadata ELSE EmptyPayload

\* FileCacheStorage.get once the lock is held: the state after it, with the
\* handle it returns
lease_get(ls) ==
    LET expired == lease_expired(ls)
        d == IF expired THEN lease_delete_item_data(ls).ls ELSE ls
        metadata_size == IF expired THEN 0 ELSE lease_meta_size(ls.meta)
        expires_at == IF expired \/ ls.meta.state # "json" THEN None
                      ELSE ls.meta.expires
        payload == get_metadata(ls)
    IN [d EXCEPT !.handle =
          [live |-> TRUE, metadata |-> payload, init_metadata |-> payload,
           aliased |-> TRUE,
           init_size |-> metadata_size + lease_file_size(d.file),
           expires_in |-> IF expires_at = None THEN None
                          ELSE expires_at - ls.now,
           changed |-> FALSE, discarded |-> FALSE]]

\* handle.metadata_changed: the dict is compared with its shallow copy
metadata_changed(h) == h.metadata # h.init_metadata

changed(h) == h.changed \/ metadata_changed(h)

\* FileCacheStorage.handle_released followed by handle.release's
\* `self.__lock = None`
lease_handle_released(ls) ==
    LET h == ls.handle
    IN IF h.discarded
         THEN LET r == lease_delete_item_data(ls)
              IN IF r.status = "ok"
                   THEN [ls |-> [r.ls EXCEPT !.handle = NoLease], status |-> "ok"]
                   ELSE r
         ELSE LET meta == IF changed(h)
                            THEN [state |-> "json",
                                  expires |-> IF h.expires_in # None
                                                THEN ls.now + h.expires_in
                                                ELSE None,
                                  metadata |-> h.metadata]
                          ELSE IF ls.meta.state = "absent" THEN EmptyMeta
                          ELSE ls.meta
                  new_size == lease_meta_size(meta) + lease_file_size(ls.file)
                  subtracted == IF h.init_size > 0 THEN ls.size - h.init_size
                                ELSE ls.size
              IN [ls |-> [ls EXCEPT !.meta = meta,
                                    !.size = subtracted + new_size,
                                    !.handle = NoLease],
                  status |-> "ok"]

LStore(ls) ==
    /\ lease_file' = ls.file
    /\ lease_meta' = ls.meta
    /\ lease_handle' = ls.handle
    /\ lease_size' = ls.size

InLeaseDrift ==
    lease_size - (lease_file_size(lease_file) + lease_meta_size(lease_meta))
        \in -MaxDrift..MaxDrift

\* cache.get(key, blocking=False)
LGet ==
    /\ InLeaseDrift
    /\ IF lease_handle.live
         THEN /\ lease_last' = LsOutcome("get", "CachedFileLocked")
              /\ UNCHANGED <<lease_file, lease_meta, lease_handle, lease_size>>
         ELSE /\ LStore(lease_get(LeaseState))
              /\ lease_last' = LsOutcome("get", "ok")
    /\ UNCHANGED <<lease_now, memvars, thvars, lkvars, flvars,
                   stvars, psvars, cbvars>>

\* handle.open('w') and a write of c
LWrite(c) ==
    /\ lease_handle.live
    /\ lease_file' = c
    /\ lease_handle' = [lease_handle EXCEPT !.changed = TRUE]
    /\ lease_last' = LsOutcome("edit", "ok")
    /\ UNCHANGED <<lease_meta, lease_size, lease_now,
                   memvars, thvars, lkvars, flvars,
                   stvars, psvars, cbvars>>

\* handle.metadata['top'] = v, or del handle.metadata['top'] for v = 0
LSetTop(v) ==
    /\ lease_handle.live
    /\ lease_handle' = [lease_handle EXCEPT !.metadata.top = v]
    /\ lease_last' = LsOutcome("edit", "ok")
    /\ UNCHANGED <<lease_file, lease_meta, lease_size, lease_now,
                   memvars, thvars, lkvars, flvars,
                   stvars, psvars, cbvars>>

\* handle.metadata['nested'] = {...}: another dict object under the key; the
\* shallow copy keeps the dict that was there
LSetNested(v) ==
    /\ lease_handle.live
    /\ v # 0
    /\ lease_handle' = [lease_handle EXCEPT !.metadata.nested = v,
                                            !.aliased = FALSE]
    /\ lease_last' = LsOutcome("edit", "ok")
    /\ UNCHANGED <<lease_file, lease_meta, lease_size, lease_now,
                   memvars, thvars, lkvars, flvars,
                   stvars, psvars, cbvars>>

\* handle.metadata['nested'][...] = ...: the nested dict is changed in place;
\* while the shallow copy refers to the same dict it changes with it
LEditNested(v) ==
    /\ lease_handle.live
    /\ lease_handle.metadata.nested # 0
    /\ v # 0 /\ v # lease_handle.metadata.nested
    /\ lease_handle' =
          [lease_handle EXCEPT
              !.metadata.nested = v,
              !.init_metadata.nested = IF lease_handle.aliased THEN v ELSE @]
    /\ lease_last' = LsOutcome("edit", "ok")
    /\ UNCHANGED <<lease_file, lease_meta, lease_size, lease_now,
                   memvars, thvars, lkvars, flvars,
                   stvars, psvars, cbvars>>

\* handle.expires_in = e
LSetExpires(e) ==
    /\ lease_handle.live
    /\ lease_handle' = [lease_handle EXCEPT !.expires_in = e]
    /\ lease_last' = LsOutcome("edit", "ok")
    /\ UNCHANGED <<lease_file, lease_meta, lease_size, lease_now,
                   memvars, thvars, lkvars, flvars,
                   stvars, psvars, cbvars>>

\* handle.discard()
LDiscard ==
    /\ lease_handle.live
    /\ ~ lease_handle.discarded
    /\ lease_handle' = [lease_handle EXCEPT !.discarded = TRUE,
                                            !.changed = TRUE]
    /\ lease_last' = LsOutcome("edit", "ok")
    /\ UNCHANGED <<lease_file, lease_meta, lease_size, lease_now,
                   memvars, thvars, lkvars, flvars,
                   stvars, psvars, cbvars>>

\* handle.release(): a handle that was released raises in
\* _assert_not_released
LRelease ==
    /\ IF lease_handle.live
         THEN LET r == lease_handle_released(LeaseState)
              IN /\ LStore(r.ls)
                 /\ lease_last' = LsOutcome("release", r.status)
         ELSE /\ lease_last' = LsOutcome("release", "Exception")
              /\ UNCHANGED <<lease_file, lease_meta, lease_handle, lease_size>>
    /\ UNCHANGED <<lease_now, memvars, thvars, lkvars, flvars,
                   stvars, psvars, cbvars>>

LTick ==
    /\ lease_now < MaxLeaseTime
    /\ lease_now' = lease_now + 1
    /\ UNCHANGED <<lease_file, lease_meta, lease_handle, lease_size,
                   lease_last, memvars, thvars, lkvars, flvars,
                   stvars, psvars, cbvars>>

LeaseNext ==
    \/ LGet
    \/ \E c \in Contents : LWrite(c)
    \/ \E v \in {0, 1} : LSetTop(v)
    \/ \E v \in {1, 2} : LSetNested(v)
    \/ \E v \in {1, 2} : LEditNested(v)
    \/ \E e \in ExpiresInChoices : LSetExpires(e)
    \/ LDiscard
    \/ LRelease
    \/ LTick

LeaseInit == MemIdle /\ ThInit /\ LkInit /\ FlInit /\ ExtInit

LeaseSpec == LeaseInit /\ [][LeaseNext]_vars

\* --------------------------------- a MemoryStorage that is called itself
\* The methods of the storage are called without the facade: add (with no
\* expiry), remove, touch_last_used and make_room_for with any size and
\* max_size, and the make_room_for that CacheStorage gives to a backend that
\* does not override it, pass by pass.

RoomSizes == {0, 1, 2, 3}
RoomMaxSizes == {None, 0, 2}
AddSizes == {1, 2}

\* a call that does not return leaves nothing to call afterwards
Callable == ~ room.active /\ last.status # "hang"

SAdd(key, size) ==
    /\ Callable
    /\ Len(key_priority) < MaxIndex
    /\ Store(add(Storage, key, "v1", size, None))
    /\ last' = Outcome("add", key, "ok", "v1", TRUE)
    /\ UNCHANGED <<max_size, max_age, now, room, thvars, lkvars, flvars,
                   lsvars, psvars, cbvars>>

SRemove(key) ==
    /\ Callable
    /\ Store(remove(Storage, key))
    /\ last' = Outcome("remove", key, "ok", NoData, TRUE)
    /\ UNCHANGED <<max_size, max_age, now, room, thvars, lkvars, flvars,
                   lsvars, psvars, cbvars>>

STouch(key) ==
    /\ Callable
    /\ Len(key_priority) < MaxIndex
    /\ Store(touch_last_used(Storage, key))
    /\ last' = Outcome("touch_last_used", key,
                       IF touch_last_used_raises(Storage, key)
                         THEN "KeyError" ELSE "ok",
                       NoData, TRUE)
    /\ UNCHANGED <<max_size, max_age, now, room, thvars, lkvars, flvars,
                   lsvars, psvars, cbvars>>

\* MemoryStorage.make_room_for(size, maxsize)
SMakeRoom(size, maxsize) ==
    /\ Callable
    /\ IF make_room_for_raises(Storage, maxsize)
         THEN /\ Store(Storage)
              /\ last' = Outcome("make_room_for", KeySeq[1], "TypeError",
                                 NoData, TRUE)
         ELSE IF make_room_for_hangs(Storage, size, maxsize)
         THEN /\ Store(Storage)
              /\ last' = Outcome("make_room_for", KeySeq[1], "hang",
                                 NoData, TRUE)
         ELSE /\ Store(make_room_for(Storage, size, maxsize))
              /\ last' = Outcome("make_room_for", KeySeq[1], "ok",
                                 NoData, TRUE)
    /\ UNCHANGED <<max_size, max_age, now, room, thvars, lkvars, flvars,
                   lsvars, psvars, cbvars>>

\* CacheStorage.make_room_for(size, maxsize) up to its loop: `None > 0`
\* raises, and the loop is entered when both arguments are positive
DefaultRoomCall(size, maxsize) ==
    /\ Callable
    /\ Store(Storage)
    /\ IF maxsize = None
         THEN /\ room' = NoRoom
              /\ last' = Outcome("default_make_room_for", KeySeq[1],
                                 "TypeError", NoData, TRUE)
         ELSE IF maxsize > 0 /\ size > 0
         THEN /\ room' = [active |-> TRUE, size |-> size,
                          max_size |-> maxsize, pass |-> 0]
              /\ last' = Outcome("default_make_room_for", KeySeq[1],
                                 "running", NoData, TRUE)
         ELSE /\ room' = NoRoom
              /\ last' = Outcome("default_make_room_for", KeySeq[1],
                                 "ok", NoData, TRUE)
    /\ UNCHANGED <<max_size, max_age, now, thvars, lkvars, flvars, lsvars,
                   psvars, cbvars>>

\* one test of `while self.total_size_stored + size >= max_size` and, when
\* it holds, one `self.remove(self.next_to_remove())`: next_to_remove gives
\* None for an empty index and remove does nothing for a key not stored
DefaultRoomPass ==
    /\ room.active
    /\ IF over_limit_or_at(Storage, room.size, room.max_size)
         THEN /\ LET removed == IF Len(key_priority) > 0
                                  THEN remove(Storage, next_to_remove(Storage))
                                  ELSE Storage
                 IN /\ items' = removed.items
                    /\ key_priority' = removed.key_priority
                    /\ total_size' = removed.total_size
                    /\ notified' = notified \o removed.notified
              /\ room' = [room EXCEPT !.pass = 1 - @]
              /\ last' = last
         ELSE /\ UNCHANGED <<items, key_priority, total_size, notified>>
              /\ room' = NoRoom
              /\ last' = Outcome("default_make_room_for", KeySeq[1], "ok",
                                 NoData, TRUE)
    /\ UNCHANGED <<max_size, max_age, expire_queue, now, thvars, lkvars,
                   flvars, lsvars, psvars, cbvars>>

StorageNext ==
    \/ \E k \in Keys, size \in AddSizes : SAdd(k, size)
    \/ \E k \in Keys : SRemove(k)
    \/ \E k \in Keys : STouch(k)
    \/ \E size \in RoomSizes, m \in RoomMaxSizes : SMakeRoom(size, m)
    \/ \E size \in RoomSizes, m \in RoomMaxSizes : DefaultRoomCall(size, m)
    \/ DefaultRoomPass

StorageInit == MemIdle /\ ThInit /\ LkInit /\ FlInit /\ ExtInit

StorageSpec == StorageInit /\ [][StorageNext]_vars

\* a call that is inside its loop goes on running
FairStorageSpec == StorageSpec /\ WF_vars(DefaultRoomPass)

\* ------------------------- an LRUCache over ShelvedStorage or Sqlite3Storage
\* LRUCache(storage=cls(path), max_size=2, sizeof=lambda i: 1), closed and
\* constructed again on the same path. No entry reaches its expiry, and the
\* calls are far enough apart for the last_used column to order them.

\* ShelvedStorage._read_existing_shelf_entries: for every key of the shelf
\* it reads self.__item_shelf['last_used'], the entry of a key 'last_used'
shelf_read_raises(rows) == rows # {}

\* Sqlite3Storage.make_room_for enters its loop; the DELETE in it is given a
\* tuple that holds the list of keys and raises for every list
sqlite_room_raises(total, size, maxsize) ==
    total + size > maxsize /\ total > 0

\* the index or the column with key as the most recent one
moved_to_end(order, key) == Append(without(order, key), key)

\* LRUCache.put(key, data, expires_in): the expiry is resolved, the size is
\* within max_size, then make_room_for and add of the backend
PPut(key, expires_in) ==
    /\ ps_open
    /\ IF expires_in = None
         THEN \* line 69: datetime.now() + None, max_age is unset
              /\ ps_last' = PsOutcome("put", key, "TypeError")
              /\ UNCHANGED <<ps_rows, ps_order, ps_total>>
         ELSE IF ps_kind = "sqlite3"
         THEN IF sqlite_room_raises(ps_total, UnitSize, PersistMaxSize)
                THEN /\ ps_last' = PsOutcome("put", key, "ProgrammingError")
                     /\ UNCHANGED <<ps_rows, ps_order, ps_total>>
                ELSE \* add: remove(key), INSERT, the caches brought up to date
                     /\ ps_rows' = ps_rows \cup {key}
                     /\ ps_order' = moved_to_end(ps_order, key)
                     /\ ps_total' = (IF key \in ps_rows
                                       THEN ps_total - UnitSize ELSE ps_total)
                                    + UnitSize
                     /\ ps_last' = PsOutcome("put", key, "ok")
         ELSE \* ShelvedStorage.make_room_for only looks at the expiry index;
              \* add calls remove for a stored key, which reads .size of a dict
              IF key \in ps_rows
                THEN /\ ps_last' = PsOutcome("put", key, "AttributeError")
                     /\ UNCHANGED <<ps_rows, ps_order, ps_total>>
                ELSE /\ ps_rows' = ps_rows \cup {key}
                     /\ ps_order' = Append(ps_order, key)
                     /\ ps_total' = ps_total + UnitSize
                     /\ ps_last' = PsOutcome("put", key, "ok")
    /\ UNCHANGED <<ps_kind, ps_open, memvars, thvars, lkvars, flvars,
                   lsvars, stvars, cbvars>>

\* LRUCache.__getitem__: get of the backend, then touch_last_used
PGet(key) ==
    /\ ps_open
    /\ IF key \in ps_rows
         THEN /\ ps_order' = moved_to_end(ps_order, key)
              /\ ps_last' = PsOutcome("get", key, "ok")
         ELSE /\ ps_order' = ps_order
              /\ ps_last' = PsOutcome("get", key, "KeyError")
    /\ UNCHANGED <<ps_kind, ps_rows, ps_total, ps_open, memvars, thvars,
                   lkvars, flvars, lsvars, stvars, cbvars>>

\* del cache[key]: remove of the backend
PRemove(key) ==
    /\ ps_open
    /\ IF key \notin ps_rows
         THEN /\ ps_last' = PsOutcome("remove", key, "ok")
              /\ UNCHANGED <<ps_rows, ps_order, ps_total>>
         ELSE IF ps_kind = "sqlite3"
         THEN /\ ps_rows' = ps_rows \ {key}
              /\ ps_order' = without(ps_order, key)
              /\ ps_total' = ps_total - UnitSize
              /\ ps_last' = PsOutcome("remove", key, "ok")
         ELSE \* ShelvedStorage.remove line 164: .size of a dict
              /\ ps_last' = PsOutcome("remove", key, "AttributeError")
              /\ UNCHANGED <<ps_rows, ps_order, ps_total>>
    /\ UNCHANGED <<ps_kind, ps_open, memvars, thvars, lkvars, flvars,
                   lsvars, stvars, cbvars>>

\* LRUCache.close: the backend closes its file and is detached; the index a
\* ShelvedStorage holds in memory goes with the object
PClose ==
    /\ ps_open
    /\ ps_open' = FALSE
    /\ ps_order' = IF ps_kind = "shelved" THEN <<>> ELSE ps_order
    /\ ps_last' = PsOutcome("close", NoKey, "ok")
    /\ UNCHANGED <<ps_kind, ps_rows, ps_total, memvars, thvars, lkvars,
                   flvars, lsvars, stvars, cbvars>>

\* LRUCache(storage=cls(path), max_size=2, ...) on the path of a closed cache
PReopen ==
    /\ ~ ps_open
    /\ IF ps_kind = "shelved" /\ shelf_read_raises(ps_rows)
         THEN /\ ps_last' = PsOutcome("open", NoKey, "KeyError")
              /\ UNCHANGED <<ps_open, ps_total>>
         ELSE \* _init_db: the count and the sum of the sizes are read
              /\ ps_open' = TRUE
              /\ ps_total' = Cardinality(ps_rows) * UnitSize
              /\ ps_last' = PsOutcome("open", NoKey, "ok")
    /\ UNCHANGED <<ps_kind, ps_rows, ps_order, memvars, thvars, lkvars,
                   flvars, lsvars, stvars, cbvars>>

PersistNext ==
    \/ \E k \in Keys, t \in Ttls : PPut(k, t)
    \/ \E k \in Keys : PGet(k)
    \/ \E k \in Keys : PRemove(k)
    \/ PClose
    \/ PReopen

PersistInit ==
    /\ MemIdle /\ ThInit /\ LkInit /\ FlInit /\ LsInit /\ StInit /\ CbInit
    /\ PsFresh /\ ps_kind \in PersistKinds

PersistSpec == PersistInit /\ [][PersistNext]_vars

\* ------------------ LRUCache over a MemoryStorage with an eviction callback
\* One thread. The cache has max_size CbMaxSize and sizeof = lambda i: 1;
\* every put gives expires_in, the clock stands still and the expire queue,
\* which no call of this specification reads, is left out. The callback is
\* any function: at each invocation it returns, or makes one call of get,
\* `in` or put on the cache and then returns; it lets exceptions through.
\* A call that is inside a callback is a frame of cb_stack: the call, its
\* key, where it stands, the key it is removing, and the call the callback
\* it is in has made.

CbMaxSize == 2          \* max_size of the cache
NoVictim == "none"
NoCall == "none"

Frame(op, key, at, victim, called) ==
    [op |-> op, key |-> key, at |-> at, victim |-> victim, called |-> called]

Top == cb_stack[Len(cb_stack)]

\* the places where notify_evicted has called the callback
InCallback(f) == f.at \in {"evicting", "replacing", "removing"}

\* the backend with the notifications of the outermost call so far
CbStorage == [Storage EXCEPT !.notified = notified]

\* remove lines 107-109, what follows the return of the callback
remove_entry(st, key) == [remove(st, key) EXCEPT !.notified = st.notified]

\* add lines 63-81 for a key that is not stored
add_entry(st, key) ==
    [add(st, key, key, UnitSize, now + 1) EXCEPT
        !.expire_queue = st.expire_queue]

\* an exception leaves every call the thread is inside: neither
\* notify_evicted, remove, make_room_for nor put catches anything
Raise(status) ==
    /\ cb_stack' = <<>>
    /\ last' = Outcome(cb_stack[1].op, cb_stack[1].key, status, NoData, TRUE)

\* the innermost call returns: to the callback that made it, or to the client
Return ==
    /\ cb_stack' = SubSeq(cb_stack, 1, Len(cb_stack) - 1)
    /\ last' = IF Len(cb_stack) = 1
                 THEN Outcome(Top.op, Top.key, "ok", NoData, TRUE)
                 ELSE last

CbFrame == <<max_size, max_age, now, thvars, lkvars, flvars, lsvars, stvars,
             psvars>>

\* cache.put(key, data, expires_in=...) by the client: lines 55-79, the
\* lock is taken and make_room_for is entered
CbPut(key) ==
    /\ cb_stack = <<>>
    /\ cb_stack' = <<Frame("put", key, "room", NoVictim, NoCall)>>
    /\ notified' = <<>>
    /\ UNCHANGED <<items, key_priority, expire_queue, total_size, last,
                   CbFrame>>

\* del cache[key] by the client: storage.remove(key), lines 105-106
CbRemove(key) ==
    /\ cb_stack = <<>>
    /\ IF key \in DOMAIN items
         THEN /\ cb_stack' = <<Frame("remove", key, "removing", key, NoCall)>>
              /\ notified' = <<key>>
              /\ UNCHANGED last
         ELSE /\ last' = Outcome("remove", key, "ok", NoData, TRUE)
              /\ notified' = <<>>
              /\ UNCHANGED cb_stack
    /\ UNCHANGED <<items, key_priority, expire_queue, total_size, CbFrame>>

\* one test of the loop of make_room_for (line 142): over the limit, remove
\* is called on next_to_remove() and calls the callback for a stored key;
\* within the limit, storage.add is entered
MakeRoomPass ==
    /\ cb_stack # <<>>
    /\ Top.at = "room"
    /\ IF Len(key_priority) > 0 /\ over_limit(CbStorage, UnitSize, max_size)
         THEN LET key == next_to_remove(CbStorage)
              IN IF key \in DOMAIN items
                   THEN /\ cb_stack' = [cb_stack EXCEPT ![Len(cb_stack)] =
                               Frame(Top.op, Top.key, "evicting", key, NoCall)]
                        /\ notified' = Append(notified, key)
                        /\ UNCHANGED last
                   ELSE /\ last' = Outcome(cb_stack[1].op, cb_stack[1].key,
                                           "hang", NoData, TRUE)
                        /\ UNCHANGED <<cb_stack, notified>>
         ELSE /\ cb_stack' = [cb_stack EXCEPT ![Len(cb_stack)].at = "add"]
              /\ UNCHANGED <<notified, last>>
    /\ UNCHANGED <<items, key_priority, expire_queue, total_size, CbFrame>>

\* storage.add lines 60-81: a stored key is removed first, with its
\* callback; a key that is not stored is added and put returns
AddEntry ==
    /\ cb_stack # <<>>
    /\ Top.at = "add"
    /\ IF has(CbStorage, Top.key)
         THEN /\ cb_stack' = [cb_stack EXCEPT ![Len(cb_stack)] =
                     Frame(Top.op, Top.key, "replacing", Top.key, NoCall)]
              /\ notified' = Append(notified, Top.key)
              /\ UNCHANGED <<items, key_priority, expire_queue, total_size,
                             last>>
         ELSE /\ Store(add_entry(CbStorage, Top.key))
              /\ Return
    /\ UNCHANGED CbFrame

\* the callback calls cache[key] for a stored key: __getitem__ takes the
\* reentrant lock again, reads and touches
CallbackGet(key) ==
    /\ cb_stack # <<>>
    /\ InCallback(Top) /\ Top.called = NoCall
    /\ key \in DOMAIN items
    /\ Store(touch_last_used(touch_last_used(CbStorage, key), key))
    /\ cb_stack' = [cb_stack EXCEPT ![Len(cb_stack)].called = "get"]
    /\ UNCHANGED <<last, CbFrame>>

\* the callback evaluates `key in cache`
CallbackContains(key) ==
    /\ cb_stack # <<>>
    /\ InCallback(Top) /\ Top.called = NoCall
    /\ cb_stack' = [cb_stack EXCEPT ![Len(cb_stack)].called = "contains"]
    /\ UNCHANGED <<items, key_priority, expire_queue, total_size, notified,
                   last, CbFrame>>

\* the callback calls cache.put(key, ...): the lock is reentrant and the
\* call goes in (calls nested deeper than MaxDepth are not followed)
CallbackPut(key) ==
    /\ cb_stack # <<>>
    /\ InCallback(Top) /\ Top.called = NoCall
    /\ Len(cb_stack) < MaxDepth
    /\ cb_stack' = Append([cb_stack EXCEPT ![Len(cb_stack)].called = "put"],
                          Frame("put", key, "room", NoVictim, NoCall))
    /\ UNCHANGED <<items, key_priority, expire_queue, total_size, notified,
                   last, CbFrame>>

\* the callback returns and remove goes on at line 107 with
\* self.__items[key], a KeyError when the entry is gone; then the loop of
\* make_room_for is tested again, add goes on, or remove returns
CallbackReturn ==
    /\ cb_stack # <<>>
    /\ InCallback(Top)
    /\ IF Top.victim \notin DOMAIN items
         THEN /\ Raise("KeyError")
              /\ UNCHANGED <<items, key_priority, expire_queue, total_size,
                             notified>>
         ELSE LET removed == remove_entry(CbStorage, Top.victim)
              IN IF Top.at = "evicting"
                   THEN /\ Store(removed)
                        /\ cb_stack' = [cb_stack EXCEPT ![Len(cb_stack)] =
                               Frame(Top.op, Top.key, "room", NoVictim, NoCall)]
                        /\ UNCHANGED last
                   ELSE IF Top.at = "replacing"
                   THEN /\ Store(add_entry(removed, Top.key))
                        /\ Return
                   ELSE /\ Store(removed)
                        /\ Return
    /\ UNCHANGED CbFrame

CallbackNext ==
    \/ \E k \in Keys : CbPut(k)
    \/ \E k \in Keys : CbRemove(k)
    \/ MakeRoomPass
    \/ AddEntry
    \/ \E k \in Keys : CallbackGet(k)
    \/ \E k \in Keys : CallbackContains(k)
    \/ \E k \in Keys : CallbackPut(k)
    \/ CallbackReturn

\* LRUCache(storage=MemoryStorage(evicted_callback=f), max_size=CbMaxSize,
\* sizeof=lambda i: 1)
CallbackInit ==
    /\ max_size = CbMaxSize
    /\ max_age = None
    /\ items = [k \in {} |-> None]
    /\ key_priority = <<>>
    /\ expire_queue = <<>>
    /\ total_size = 0
    /\ notified = <<>>
    /\ now = 0
    /\ last = Outcome("init", KeySeq[1], "ok", NoData, TRUE)
    /\ ThInit /\ LkInit /\ FlInit /\ ExtInit

CallbackSpec == CallbackInit /\ [][CallbackNext]_vars

\* the specification under which the client keeps calling the sweep and get
\* and the clock keeps running: more than the code's scheduling promises
\* (MemoryStorage starts no thread or timer of its own)
FairSpec ==
    /\ Spec
    /\ WF_vars(Tick)
    /\ WF_vars(Clean)
    /\ \A k \in Keys : WF_vars(Get(k))

\* ---------------------------------------------------------------- claims
Stored(k) == k \in DOMAIN items

Expired(k) ==
    Stored(k) /\ items[k].expire_after # None /\ items[k].expire_after <= now

RECURSIVE SumSizes(_)
SumSizes(S) ==
    IF S = {} THEN 0
    ELSE LET k == CHOOSE x \in S : TRUE
         IN items[k].size + SumSizes(S \ {k})

\* C1: with max_size = M set, total_size_stored <= M after every put, in any
\* sequence of put, get and remove (and in every other reachable state).
CapacityInvariant == max_size # None => total_size <= max_size

\* C1 witness: a put that fitted only after two evictions filled the cache.
CapacityWitness ==
    /\ max_size # None
    /\ last.op = "put" /\ last.status = "ok" /\ last.fits
    /\ Len(notified) >= 2
    /\ total_size = max_size

\* C2: a key that a put evicts was used (put, or read by a successful get)
\* no later than every key that survives the put.
EvictsLeastRecentlyUsed ==
    [][last'.op = "put" =>
         \A e \in DOMAIN items \ DOMAIN items' :
            \A j \in (DOMAIN items \cap DOMAIN items') \ {last'.key} :
               items[e].last_used <= items[j].last_used]_vars

\* C2 witness: a put has evicted one key and kept another one, which was
\* last used after the clock had advanced.
EvictionWitness ==
    /\ last.op = "put" /\ last.status = "ok" /\ last.fits
    /\ Len(notified) = 1 /\ notified[1] \notin DOMAIN items
    /\ \E j \in DOMAIN items :
          /\ j # last.key
          /\ items[j].last_used > 0

\* C3: put(k, v2) on a stored key k leaves one entry for k holding v2, the
\* same number of items, and a total that counts v2's size in place of v1's.
ReplaceKeepsOneEntry ==
    [][\A k \in Keys, p \in Payloads, t \in Ttls :
         (Put(k, p[1], t, p[2]) /\ Stored(k) /\ Fits(p[2])) =>
            /\ k \in DOMAIN items'
            /\ items'[k].data = p[1]
            /\ Cardinality(DOMAIN items') = Cardinality(DOMAIN items)
            /\ total_size' = total_size - items[k].size + p[2]]_vars

\* C4: under every configuration of the limits, get(k) right after put(k, v)
\* of an item that fits, with no expiry in between, returns v.
PutThenGetReturnsValue ==
    [][\A k \in Keys :
         (last.op = "put" /\ last.key = k /\ last.fits /\ Get(k)
            /\ ~ Expired(k)) =>
            (last'.status = "ok" /\ last'.data = last.data)]_vars

\* C5: put stores the entry with expiry now + ttl when a ttl is passed, else
\* now + max_age when max_age is configured, else with no expiry at all.
PutResolvesExpiry ==
    [][\A k \in Keys, p \in Payloads, t \in Ttls :
         (Put(k, p[1], t, p[2]) /\ Fits(p[2])) =>
            /\ k \in DOMAIN items'
            /\ items'[k].expire_after =
                  (IF t # None THEN now + t
                   ELSE IF max_age # None THEN now + max_age
                   ELSE None)]_vars

\* C6: get(k) of an entry whose expire_at has passed fails with ItemExpired,
\* which is not the outcome get gives for a key that has no entry.
ExpiredGetRaisesItemExpired ==
    [][\A k \in Keys :
         (Get(k) /\ Expired(k)) => last'.status = "ItemExpired"]_vars

\* C7: a get(k) that finds the entry expired removes it, and the total no
\* longer includes its size.
ExpiredGetRemovesEntry ==
    [][\A k \in Keys :
         (Get(k) /\ Expired(k)) =>
            /\ k \notin DOMAIN items'
            /\ total_size' = total_size - items[k].size]_vars

\* C8: has(k) is true exactly when k has a stored entry that is not past its
\* expire_at.
HasIffLiveEntry ==
    \A k \in Keys : has(Storage, k) <=> (Stored(k) /\ ~ Expired(k))

\* C9: the sweep removes every expired entry, subtracts their sizes from the
\* total and leaves the other entries and their recency order as they were.
SweepRemovesExpired ==
    [][Clean =>
         LET gone == {k \in DOMAIN items : Expired(k)}
             kept == DOMAIN items \ gone
         IN /\ DOMAIN items' = kept
            /\ \A k \in kept : items'[k] = items[k]
            /\ total_size' = total_size - SumSizes(gone)
            /\ key_priority' = SelectSeq(key_priority, LAMBDA k : k \in kept)
      ]_vars

\* C10: an entry whose expire_at has passed is eventually reclaimed: it goes
\* from the storage (or a fresh put takes its place).
ExpiredEventuallyReclaimed ==
    \A k \in Keys : Expired(k) ~> ~ Expired(k)

\* C11: a put whose resolved size exceeds max_size returns without raising
\* and leaves the stored keys, values, recency order and total as they were.
OversizedPutRejectedSilently ==
    [][\A k \in Keys, p \in Payloads, t \in Ttls :
         (Put(k, p[1], t, p[2]) /\ ~ Fits(p[2])) =>
            /\ last'.status = "ok"
            /\ items' = items
            /\ key_priority' = key_priority
            /\ total_size' = total_size
            /\ notified' = <<>>]_vars

NonExpiredTotal == SumSizes({k \in DOMAIN items : ~ Expired(k)})

\* C14 as claimed: after every completed mutation the total is the sum of
\* the sizes of the entries that are not expired.
TotalIsSumOfNonExpired ==
    [][(last'.op \in {"put", "get", "remove", "clean"}
          /\ last'.status = "ok" /\ now' = now) =>
         total_size' = NonExpiredTotal']_vars

\* C14 as amended: the total is the sum of the sizes of all stored entries,
\* expired or not.
TotalIsSumOfStored == total_size = SumSizes(DOMAIN items)

\* C14 witness: a mutation has completed while an expired entry is stored.
TotalWitness ==
    /\ last.op = "remove" /\ notified # <<>>
    /\ \E k \in Keys : Expired(k)
    /\ total_size > 0

InStorage(t) ==
    pc[t] \in {"put_storage", "get_storage", "remove_storage", "clean_storage"}

\* C13: put, get, remove and the sweep exclude each other: no two threads
\* are inside the storage steps of these calls at once.
FacadeCallsExclusive ==
    \A t1, t2 \in Threads : (InStorage(t1) /\ InStorage(t2)) => t1 = t2

\* the threads that are the only thread of their process: every call of the
\* process on the key comes after the one before has returned
SoloAgents ==
    {a \in Agents : \A b \in Agents : Proc(b) = Proc(a) => b = a}

AtMostOneLiveHandle ==
    Cardinality({a \in Agents : handle[a] = "live"}) <= 1

\* a thread holds the handle while a thread of the same process, past the
\* table check, and a thread of another process both wait for the lock file
ContendedWitness ==
    \E a, b, c \in Agents :
        /\ handle[a] = "live"
        /\ lpc[b] = "acquire" /\ Proc(b) = Proc(a) /\ b # a
        /\ lpc[c] = "acquire" /\ Proc(c) # Proc(a)

\* C17: a non-blocking get that gives up waiting for a lock another process
\* holds raises CachedFileLocked.
LockTimeoutIsCachedFileLocked ==
    [][\A a \in Agents :
         (/\ lpc[a] = "acquire" /\ lpc'[a] = "idle"
          /\ flock # NoAgent /\ Proc(flock) # Proc(a)) =>
            lk_last' = LkOutcome(a, "get", "CachedFileLocked")]_vars

\* the handle of j is released by this step: handle_released ran to its end
Released(j) == handles[j] # NoHandle /\ handles'[j] = NoHandle

Leased(k) == handles[k] # NoHandle \/ other_lock = k

\* C18: the eviction that follows a release deletes no file of a key that
\* this process or another one holds a handle of, and leaves the handle and
\* its pre-lease size as they were.
EvictionSparesLeased ==
    [][\A j, k \in FileKeys :
         (Released(j) /\ k # j /\ Leased(k)) =>
            /\ content'[k] = content[k]
            /\ metadata'[k] = metadata[k]
            /\ handles'[k] = handles[k]
            /\ (handles[k] # NoHandle /\ ~ handles[k].changed =>
                  entry_size(FileState, k)' = handles[k].init_size)]_vars

\* an eviction met a key that is leased and whose files are on disk
SparedWitness ==
    /\ f_last \in {FOutcome("release", "CachedFileLocked"),
                   FOutcome("release", "Timeout")}
    /\ \E k \in FileKeys :
          /\ Leased(k)
          /\ content[k] > 0
          /\ mtime_order # <<>> /\ Head(mtime_order) = k

\* C19: an eviction pass that meets a leased oldest entry goes on to the
\* next-oldest entry that is not leased: it ends on a leased key only when
\* every entry left is leased.
EvictionSkipsLeased ==
    [][(f_last' \in {FOutcome("release", "CachedFileLocked"),
                     FOutcome("release", "Timeout")}
        /\ \E j \in FileKeys : Released(j)) =>
          \A k \in keys(FileState)' : Leased(k)']_vars

\* C20: the release of a discarded handle deletes both files of the key and
\* takes the pre-lease size of the handle, and nothing else, off the running
\* total (no eviction follows when max_size is unset).
DiscardSubtractsPriorSize ==
    [][\A k \in FileKeys :
         (/\ handles[k] # NoHandle /\ handles[k].discarded
          /\ f_last'.op = "release" /\ fc_max_size = None
          /\ \A j \in FileKeys \ {k} : handles'[j] = handles[j]
          /\ handles'[k] # handles[k] \/ f_last'.status # "ok") =>
            /\ content'[k] = 0
            /\ metadata'[k] = "absent"
            /\ cache_size' = cache_size - handles[k].init_size]_vars

\* C21: every call of release on a handle takes effect, whichever way it
\* ends (also for a discarded entry that has no files, and when the eviction
\* that follows fails): afterwards the key is out of the live-handle table
\* and its lock is free.
ReleaseTakesEffect ==
    [][\A k \in FileKeys : FRelease(k) => handles'[k] = NoHandle]_vars

\* C24: when the release of a changed handle has taken effect on a cache
\* with max_size = M, the running total read next is at most M.
ReleaseKeepsTotalWithinMax ==
    [][\A j \in FileKeys :
         (Released(j) /\ handles[j].changed /\ fc_max_size # None) =>
            read_size(FileState)'.cache_size <= fc_max_size]_vars

RoundTripKeepsPayload ==
    [][(lease_handle.live /\ ~ lease_handle'.live
        /\ ~ lease_handle.discarded) =>
          /\ lease_file' = lease_file
          /\ lease_get(LeaseState').handle.metadata
                = lease_handle.metadata]_vars

\* C23: a get of an entry whose recorded expiry has passed deletes both
\* files, takes their size off the running total and returns a handle with
\* an empty payload and a pre-lease size of 0.
ExpiredGetGivesEmptyHandle ==
    [][(~ lease_handle.live /\ lease_handle'.live
        /\ lease_expired(LeaseState)) =>
          /\ lease_file' = 0
          /\ lease_meta' = AbsentMeta
          /\ lease_size' = lease_size - (lease_file_size(lease_file)
                                         + lease_meta_size(lease_meta))
          /\ lease_handle'.init_size = 0
          /\ lease_handle'.metadata = EmptyPayload]_vars

\* the sizes of the first n keys of the index summed up
RECURSIVE PrefixSize(_, _)
PrefixSize(index, n) ==
    IF n = 0 THEN 0 ELSE PrefixSize(index, n - 1) + items[index[n]].size

\* C27: a call of MemoryStorage.make_room_for(added, max) with max > 0
\* returns, having evicted a prefix of the recency order, oldest first, each
\* eviction made while the new item did not fit yet, and having stopped
\* when it fits or nothing is stored; when the total and the new size make
\* max exactly, nothing is evicted.
MakeRoomEvictsOldestPrefix ==
    [][\A size \in RoomSizes, m \in RoomMaxSizes \ {None} :
         (m > 0 /\ SMakeRoom(size, m)) =>
            LET n == Len(notified')
            IN /\ last'.status = "ok"
               /\ n <= Len(key_priority)
               /\ notified' = SubSeq(key_priority, 1, n)
               /\ key_priority' = SubSeq(key_priority, n + 1, Len(key_priority))
               /\ \A i \in 1..n :
                     total_size - PrefixSize(key_priority, i - 1) + size > m
               /\ total_size' = total_size - PrefixSize(key_priority, n)
               /\ DOMAIN items' = DOMAIN items \ {notified'[i] : i \in 1..n}
               /\ \A k \in DOMAIN items' : items'[k] = items[k]
               /\ (total_size' + size <= m \/ DOMAIN items' = {})
               /\ (total_size + size = m => n = 0)]_vars

\* C28: make_room_for with max_size unset or not positive is a no-op: it
\* evicts nothing and raises nothing, whatever is stored and whatever the
\* added size is.
NoLimitMakesNoRoom ==
    [][\A size \in RoomSizes, m \in RoomMaxSizes :
         ((m = None \/ m <= 0) /\ SMakeRoom(size, m)) =>
            /\ last'.status = "ok"
            /\ items' = items
            /\ key_priority' = key_priority
            /\ total_size' = total_size]_vars

\* C29: touch_last_used(k) moves a stored k to the most recently used end
\* of the index and changes no value, no size and not the total; for a key
\* that is not stored it raises nothing and changes nothing.
TouchMovesOrDoesNothing ==
    [][\A k \in Keys :
         STouch(k) =>
            /\ last'.status = "ok"
            /\ total_size' = total_size
            /\ DOMAIN items' = DOMAIN items
            /\ \A j \in DOMAIN items :
                  /\ items'[j].data = items[j].data
                  /\ items'[j].size = items[j].size
            /\ IF k \in DOMAIN items
                 THEN key_priority'[Len(key_priority')] = k
                 ELSE key_priority' = key_priority]_vars

\* C30: a call of the default CacheStorage.make_room_for that has entered
\* its loop leaves it, whatever the sizes and the state of the backend are.
DefaultRoomTerminates == room.active ~> ~ room.active

\* C26: the entries of a persistent backend and their recency order survive
\* close and reopen: constructing the cache again on the path succeeds with
\* the entries and their total, and a put of a new key into the full cache
\* (two entries of size 1, max_size 2) succeeds, evicts the least recently
\* used entry and leaves the other one and the new one, total 2.
ReopenPreservesLru ==
    [][/\ PReopen =>
            /\ ps_open'
            /\ ps_rows' = ps_rows
            /\ ps_total' = Cardinality(ps_rows) * UnitSize
       /\ \A k \in Keys \ ps_rows :
            (PPut(k, 1) /\ Cardinality(ps_rows) = PersistMaxSize) =>
               /\ ps_last'.status = "ok"
               /\ ps_rows' = (ps_rows \ {Head(ps_order)}) \cup {k}
               /\ ps_total' = PersistMaxSize]_vars

\* C31: whenever no handle is outstanding, total_size_stored equals the sum
\* of the sizes of the content and metadata files of all entries, and the
\* item count equals the number of entries on disk.
TotalMatchesDisk ==
    (\A k \in FileKeys : ~ Leased(k)) =>
        /\ read_size(FileState).cache_size = disk_bytes(FileState, FileKeys)
        /\ read_size(FileState).cache_count = Cardinality(keys(FileState))

\* C38: a get of a key that has no entry, followed by a release without a
\* write, a metadata change or a discard, leaves the cache as it was: no
\* file of the key is made, and keys(), the item count and the total are
\* unchanged.
NoOpLeaseLeavesNothing ==
    [][\A k \in FileKeys :
         (/\ FRelease(k)
          /\ metadata[k] = "absent"
          /\ content[k] = 0
          /\ ~ handles[k].changed) =>
            /\ metadata'[k] = "absent"
            /\ keys(FileState)' = keys(FileState)
            /\ cache_count' = cache_count
            /\ cache_size' = cache_size]_vars

\* C40: the release of a lease that rewrote the content or the metadata
\* payload of an entry and set no time-to-live leaves the recorded expiry
\* of the entry where it was, whatever time passed since the get.
RewriteKeepsExpiry ==
    [][(/\ LRelease
        /\ ~ lease_handle.discarded
        /\ lease_meta.state = "json"
        /\ lease_meta.expires # None
        /\ lease_handle.expires_in \notin ExpiresInChoices) =>
           /\ lease_meta'.state = "json"
           /\ lease_meta'.expires = lease_meta.expires]_vars

\* C32: a get with blocking=True that was issued while another handle of
\* the key is open does not fail: the call ends only by returning a handle,
\* whether the open handle is one of another process or of the same process.
BlockingGetReturnsHandle ==
    [][\A a \in Agents :
         (blocking[a] /\ lpc[a] # "idle" /\ lpc'[a] = "idle") =>
            lk_last' = LkOutcome(a, "get", "handle")]_vars

\* C39: a handle stays registered in the live-handle table of its process
\* from the return of its get until its own release: no release of another
\* handle removes the registration.
RegisteredUntilRelease ==
    \A a \in Agents :
        (handle[a] = "live" /\ lpc[a] = "idle") => live_handles[Proc(a)] = a

\* C33: a handle that was dropped without release does not block its key:
\* the next get in the process finds the dead table entry, clears it and
\* goes on to the lock instead of failing with CachedFileLocked, and
\* close() clears the dead entry and raises nothing.
LostHandleIsCleared ==
    [][\A a \in Agents :
         LET lost == /\ live_handles[Proc(a)] # NoAgent
                     /\ ~ HandleAlive(Proc(a))
         IN /\ (lost /\ CheckTable(a)) =>
                  /\ lpc'[a] = "acquire"
                  /\ live_handles'[Proc(a)] = NoAgent
            /\ (lost /\ LkClose(a)) =>
                  /\ lk_last' = LkOutcome(a, "close", "ok")
                  /\ live_handles'[Proc(a)] = NoAgent]_vars

\* C35: the eviction callback runs before the deletion: while a callback
\* runs, whatever it does, the entry it was called for is still stored and
\* counted; it is deleted when the callback has returned.
CallbackBeforeDeletion ==
    \A i \in 1..Len(cb_stack) :
        InCallback(cb_stack[i]) =>
            /\ cb_stack[i].victim \in DOMAIN items
            /\ total_size = SumSizes(DOMAIN items)

\* C37: a put by the client, whose eviction callback may call get, `in` or
\* put on the same cache, completes: when the thread has left the put, the
\* put has raised nothing and the total is within max_size and is the sum
\* of the stored sizes.
ReentrantPutCompletes ==
    [][(/\ cb_stack # <<>>
        /\ cb_stack[1].op = "put"
        /\ cb_stack' = <<>>) =>
           /\ last'.status = "ok"
           /\ total_size' <= max_size
           /\ total_size' = SumSizes(DOMAIN items)']_vars

\* C36: a sweep that finds at the head of the expire queue a stale entry,
\* one whose time has passed while the key is stored with a later expiry,
\* discards that heap entry, raises nothing and keeps the current entry.
SweepDiscardsStaleEntry ==
    [][(/\ Clean
        /\ Len(expire_queue) > 0
        /\ expire_queue[1][1] <= now
        /\ expire_queue[1][2] \in DOMAIN items
        /\ items[expire_queue[1][2]].expire_after > now) =>
           /\ last'.status = "ok"
           /\ Len(expire_queue') < Len(expire_queue)
           /\ expire_queue[1][2] \in DOMAIN items'
           /\ items'[expire_queue[1][2]] = items[expire_queue[1][2]]]_vars

\* the place of key x in the order of the metadata mtimes
Pos(order, x) == CHOOSE n \in 1..Len(order) : order[n] = x

====
